---- MODULE Spec2Model ----
(***************************************************************************)
(* A model of twextender's journal (src/twextender/journal.py): the        *)
(* per-user journal files, the text form of their entries, the flock-based *)
(* critical sections of try_start / finish / abandon, and the replay that  *)
(* try_start runs over a file.                                             *)
(*                                                                         *)
(* Conventions.                                                            *)
(*  - A Python value that may be None is a sequence: None is <<>> and a    *)
(*    present value v is <<v>>.                                            *)
(*  - A Python str that is split on tabs is kept as the sequence of its    *)
(*    tab-free pieces: the name "a\tb" is <<"a", "b">>, the name "bob" is  *)
(*    <<"bob">>.  A line of a journal file is the sequence of its          *)
(*    tab-separated fields (what line.strip().split('\t') returns).        *)
(*  - A datetime is a number of seconds on the model's clock.              *)
(***************************************************************************)
EXTENDS Integers, Sequences, FiniteSets, TLC

None == <<>>
Some(v) == <<v>>

(***************************************************************************)
(* Program constants                                                       *)
(***************************************************************************)
JOURNAL_FILE_EXT == ".journal"
JOURNAL_ACCESS_TIMEOUT_SECS == 180
TRANSACTION_EXPIRY_TIMEOUT_SECS == 300

(***************************************************************************)
(* Bounds of the model                                                     *)
(***************************************************************************)
\* number of concurrent callers of the journal
NumWorkers == 2
\* expiry periods the clock runs through
MaxPeriods == 1
\* seconds past the end of an expiry period at which the clock is read
MaxSeconds == 1
\* calls of try_start / finish / abandon in one behaviour
MaxCalls == 3
\* failed flock attempts that are modelled one by one before the rest are
\* modelled as one run of failures
MaxSingleRetries == 1
\* completed calls remembered per subject by the history variable
HistLen == 3

Workers == 1..NumWorkers
NoWorker == 0

\* screen names the callers pass in: every worker spells the name its own way
UserNames == {<<"bob">>, <<"Bob">>, <<"BOB">>}
SpellingOf(w) == CASE w = 1 -> <<"bob">> [] w = 2 -> <<"Bob">> [] OTHER -> <<"BOB">>
\* tweet ids: the watermarks a forced try_start is given, and the batches
\* (oldest tweet id, its date) that finish is given
ForcedIds == {42}
Batches == {<<42, 8>>, <<100, 8>>}
\* -1 is what create_journal passes as old_max_id
IdValues == {42, 100, -1}
\* the values the clock is read at: 0, and the seconds at and just after
\* the end of each expiry period
Times == {0} \cup {TRANSACTION_EXPIRY_TIMEOUT_SECS * b + a :
                    b \in 1..MaxPeriods, a \in 0..MaxSeconds}
\* dates of tweets, given as new_max_date
TweetDates == {7, 8}
DateValues == Times \cup TweetDates

(***************************************************************************)
(* str.lower(), on the letters the model's names use                       *)
(***************************************************************************)
LowerStr(s) == CASE s = "Bob" -> "bob"
                 [] s = "BOB" -> "bob"
                 [] s = "Eve" -> "eve"
                 [] s = "A" -> "a"
                 [] OTHER -> s

Lower(name) == [i \in DOMAIN name |-> LowerStr(name[i])]

RECURSIVE JoinTabs(_)
JoinTabs(pieces) ==
    IF Len(pieces) = 0 THEN ""
    ELSE IF Len(pieces) = 1 THEN pieces[1]
    ELSE pieces[1] \o "\t" \o JoinTabs(Tail(pieces))

(***************************************************************************)
(* JournalEntry and its text form                                          *)
(***************************************************************************)
EntryTypeNames == {"Started", "Abandoned", "Finished"}

JournalEntry(date, user_name, entry_type, old_max_id, new_max_id, new_max_date) ==
    [date |-> date, user_name |-> user_name, entry_type |-> entry_type,
     old_max_id |-> old_max_id, new_max_id |-> new_max_id,
     new_max_date |-> new_max_date]

started_now(now, user_name, from_max_id) ==
    JournalEntry(now, user_name, "Started", from_max_id, None, None)

finished_now(now, user_name, old_max_id, new_max_id, new_max_date) ==
    JournalEntry(now, user_name, "Finished", old_max_id, new_max_id, new_max_date)

abandoned_now(now, user_name, old_max_id) ==
    JournalEntry(now, user_name, "Abandoned", old_max_id, None, None)

\* is_for_user, taking every entry for the user's
is_for_user_always(self, user_name) == TRUE

is_for_user(self, user_name) == Lower(user_name) = Lower(self.user_name)

\* self.is_completion_of(entry), with the receiver and the argument as in the code
is_completion_of(self, entry) ==
    IF self.entry_type # "Started" THEN FALSE
    ELSE IF entry.entry_type = "Started" THEN FALSE
    ELSE /\ is_for_user(self, entry.user_name)
         /\ (self.old_max_id = None \/ self.old_max_id = entry.old_max_id)

is_expired(self, now) == now - self.date > TRANSACTION_EXPIRY_TIMEOUT_SECS

\* datetime.isoformat(): a fixed-width text
IsoFormat(d) ==
    "D" \o (IF d < 10 THEN "000" ELSE IF d < 100 THEN "00"
            ELSE IF d < 1000 THEN "0" ELSE "") \o ToString(d)

IsoTable == [d \in DateValues |-> IsoFormat(d)]
IntTable == [i \in IdValues |-> ToString(i)]

\* dateutil's parse and int(), on the texts isoformat() and str() produce;
\* any other text raises
IsDateStr(s) == \E d \in DateValues : IsoTable[d] = s
ParseDate(s) == CHOOSE d \in DateValues : IsoTable[d] = s
IsIntStr(s) == \E i \in IdValues : IntTable[i] = s
ParseInt(s) == CHOOSE i \in IdValues : IntTable[i] = s

StrOfNone == "None"

\* JournalEntry.__str__, split at its tabs
Str(e) ==
    <<IsoFormat(e.date)>> \o e.user_name
      \o << e.entry_type,
            IF e.old_max_id = None THEN StrOfNone ELSE ToString(e.old_max_id[1]),
            IF e.new_max_id = None THEN StrOfNone ELSE ToString(e.new_max_id[1]),
            IF e.new_max_date = None THEN StrOfNone ELSE IsoFormat(e.new_max_date[1]) >>

\* FromStrOk, taking every name for the name of a kind
FromStrOk_any_kind(parts) ==
    /\ Len(parts) >= 3
    /\ IsDateStr(parts[1])
    /\ Len(parts) > 3 => (parts[4] = StrOfNone \/ IsIntStr(parts[4]))
    /\ Len(parts) > 4 => (parts[5] = StrOfNone \/ IsIntStr(parts[5]))
    /\ Len(parts) > 5 => (parts[6] = StrOfNone \/ IsDateStr(parts[6]))

\* from_str returns an entry for these parts; for all others it raises
\* (IndexError, KeyError, ValueError)
FromStrOk(parts) ==
    /\ Len(parts) >= 3
    /\ IsDateStr(parts[1])
    /\ parts[3] \in EntryTypeNames
    /\ Len(parts) > 3 => (parts[4] = StrOfNone \/ IsIntStr(parts[4]))
    /\ Len(parts) > 4 => (parts[5] = StrOfNone \/ IsIntStr(parts[5]))
    /\ Len(parts) > 5 => (parts[6] = StrOfNone \/ IsDateStr(parts[6]))

\* from_str, without the branch that reads the sixth field
from_str_five_fields(parts) ==
    JournalEntry(
        ParseDate(parts[1]),
        <<parts[2]>>,
        parts[3],
        IF Len(parts) > 3 /\ parts[4] # StrOfNone THEN Some(ParseInt(parts[4])) ELSE None,
        IF Len(parts) > 4 /\ parts[5] # StrOfNone THEN Some(ParseInt(parts[5])) ELSE None,
        None)

from_str(parts) ==
    JournalEntry(
        ParseDate(parts[1]),
        <<parts[2]>>,
        parts[3],
        IF Len(parts) > 3 /\ parts[4] # StrOfNone THEN Some(ParseInt(parts[4])) ELSE None,
        IF Len(parts) > 4 /\ parts[5] # StrOfNone THEN Some(ParseInt(parts[5])) ELSE None,
        IF Len(parts) > 5 /\ parts[6] # StrOfNone THEN Some(ParseDate(parts[6])) ELSE None)

(***************************************************************************)
(* JournalResponse                                                         *)
(***************************************************************************)
JournalResponse(result_type, user, max_id, last_access, last_tweet_date_utc) ==
    [result_type |-> result_type, user |-> user, max_id |-> max_id,
     last_access |-> last_access, last_tweet_date_utc |-> last_tweet_date_utc]

not_found(user_name) == JournalResponse("NotFound", user_name, None, None, None)

\* found, giving out the watermark the session began from
found_old_max_id(j_entry) ==
    JournalResponse("Found", j_entry.user_name, j_entry.old_max_id,
                    Some(j_entry.date), j_entry.new_max_date)

found(j_entry) ==
    JournalResponse("Found", j_entry.user_name, j_entry.new_max_id,
                    Some(j_entry.date), j_entry.new_max_date)

in_use(j_entry) ==
    JournalResponse("InUse", j_entry.user_name, j_entry.old_max_id,
                    Some(j_entry.date), None)

\* what a call hands back: a response, nothing (finish, abandon), or an exception
Returned(resp) == [raised |-> "", resp |-> Some(resp)]
ReturnedNothing == [raised |-> "", resp |-> None]
Raised(exc) == [raised |-> exc, resp |-> None]

(***************************************************************************)
(* The bytes of a journal file.  Every field of a line is followed by one  *)
(* byte, a tab or the newline.  A write through a handle opened "r+" lands *)
(* at the handle's own offset and replaces the bytes it finds there; what  *)
(* is left of a line that was cut is text that no longer decodes.          *)
(***************************************************************************)
RECURSIVE SumLen(_)
SumLen(parts) == IF Len(parts) = 0 THEN 0 ELSE Len(parts[1]) + 1 + SumLen(Tail(parts))

ByteLen(parts) == SumLen(parts)

RECURSIVE Filler(_)
Filler(n) == IF n <= 0 THEN "" ELSE "?" \o Filler(n - 1)

\* a cut line of n bytes, its newline included; with n = 1 it is a blank line
CutLine(n) == <<Filler(n - 1)>>

IsBlank(parts) == parts = <<"">>

RECURSIVE EndOf(_, _)
\* the offset just after the k-th line
EndOf(lines, k) == IF k = 0 THEN 0 ELSE EndOf(lines, k - 1) + ByteLen(lines[k])

Size(lines) == EndOf(lines, Len(lines))

\* the number of whole lines that end at or before the offset
WholeLinesBefore(lines, off) ==
    CHOOSE k \in 0..Len(lines) :
        /\ EndOf(lines, k) <= off
        /\ k < Len(lines) => EndOf(lines, k + 1) > off

\* write(2) of one line at an offset of the file
WriteAt(lines, off, parts) ==
    LET stop == off + ByteLen(parts)
        k    == WholeLinesBefore(lines, off)
        head == off - EndOf(lines, k)
        mid  == IF head = 0 THEN parts ELSE CutLine(head + ByteLen(parts))
        m    == WholeLinesBefore(lines, stop)
        rest == IF stop >= Size(lines) THEN <<>>
                ELSE IF EndOf(lines, m) = stop THEN SubSeq(lines, m + 1, Len(lines))
                ELSE <<CutLine(EndOf(lines, m + 1) - stop)>>
                       \o SubSeq(lines, m + 2, Len(lines))
    IN  SubSeq(lines, 1, k) \o <<mid>> \o rest

\* write(2) through a handle opened "a" (O_APPEND)
WriteAppend(lines, parts) == Append(lines, parts)

(***************************************************************************)
(* try_start's replay of the lines it read                                 *)
(***************************************************************************)
NonBlank(lines) == SelectSeq(lines, LAMBDA l : ~IsBlank(l))

\* the exception from_str raises for these parts, "" when it returns
FromStrError(parts) ==
    IF ~IsDateStr(parts[1]) THEN "ValueError"
    ELSE IF Len(parts) < 3 THEN "IndexError"
    ELSE IF parts[3] \notin EntryTypeNames THEN "KeyError"
    ELSE IF ~FromStrOk(parts) THEN "ValueError"
    ELSE ""

\* the exception the read loop raises at one line, "" when it goes on
LineError(parts, user_name) ==
    IF FromStrError(parts) # "" THEN FromStrError(parts)
    ELSE IF ~is_for_user(from_str(parts), user_name) THEN "ValueError: wrong user"
    ELSE ""

\* the first line at which the read loop raises, 0 when it reads them all
FirstBadLine(lines, user_name) ==
    IF \E i \in 1..Len(lines) : LineError(lines[i], user_name) # ""
    THEN CHOOSE i \in 1..Len(lines) :
            /\ LineError(lines[i], user_name) # ""
            /\ \A j \in 1..(i - 1) : LineError(lines[j], user_name) = ""
    ELSE 0

\* one turn of the read loop: the entry read against the stack
PushEntry(user_entries, entry) ==
    IF Len(user_entries) = 0 THEN <<entry>>
    ELSE IF is_completion_of(entry, user_entries[Len(user_entries)])
         THEN Append(SubSeq(user_entries, 1, Len(user_entries) - 1), entry)
         ELSE Append(user_entries, entry)

RECURSIVE ReplayUpTo(_, _)
\* user_entries after the first n lines
ReplayUpTo(lines, n) ==
    IF n = 0 THEN <<>>
    ELSE PushEntry(ReplayUpTo(lines, n - 1), from_str(lines[n]))

Replay(lines) == ReplayUpTo(lines, Len(lines))

RECURSIVE Unwind(_, _, _)
\* the while loop over user_entries: the response it settles on and the
\* entry try_start writes, <<>> when it writes none
Unwind(user_entries, user_name, now) ==
    IF Len(user_entries) = 0
    THEN [resp |-> not_found(user_name), write |-> <<started_now(now, user_name, None)>>]
    ELSE LET l    == user_entries[Len(user_entries)]
             rest == SubSeq(user_entries, 1, Len(user_entries) - 1)
         IN  IF l.entry_type = "Started"
             THEN IF ~is_expired(l, now)
                  THEN [resp |-> in_use(l), write |-> <<>>]
                  ELSE Unwind(rest, user_name, now)
             ELSE IF l.entry_type = "Finished"
             THEN [resp |-> found(l),
                   write |-> <<started_now(now, user_name, found(l).max_id)>>]
             ELSE Unwind(rest, user_name, now)

\* the body of try_start, answering a bad line with a BrokenJournal response
TryStartBody_broken_journal(lines, user_name, from_max_id, now) ==
    IF from_max_id # None
    THEN LET entry == started_now(now, user_name, from_max_id)
         IN  [out |-> Returned(in_use(entry)), write |-> <<entry>>]
    ELSE LET read == NonBlank(lines)
             bad  == FirstBadLine(read, user_name)
         IN  IF bad # 0
             THEN [out |-> Returned(JournalResponse("BrokenJournal", user_name, None, None, None)),
                   write |-> <<>>]
             ELSE LET u == Unwind(Replay(read), user_name, now)
                  IN  [out |-> Returned(u.resp), write |-> u.write]

\* the body of try_start, writing a Started entry on InUse as well
TryStartBody_writes_on_in_use(lines, user_name, from_max_id, now) ==
    IF from_max_id # None
    THEN LET entry == started_now(now, user_name, from_max_id)
         IN  [out |-> Returned(in_use(entry)), write |-> <<entry>>]
    ELSE LET read == NonBlank(lines)
             bad  == FirstBadLine(read, user_name)
         IN  IF bad # 0
             THEN [out |-> Raised(LineError(read[bad], user_name)), write |-> <<>>]
             ELSE LET u == Unwind(Replay(read), user_name, now)
                  IN  [out |-> Returned(u.resp),
                       write |-> IF u.write = <<>>
                                 THEN <<started_now(now, user_name, u.resp.max_id)>>
                                 ELSE u.write]

\* the body of try_start under the lock: what it returns or raises, and the
\* entries it hands to f.write
TryStartBody(lines, user_name, from_max_id, now) ==
    IF from_max_id # None
    THEN LET entry == started_now(now, user_name, from_max_id)
         IN  [out |-> Returned(in_use(entry)), write |-> <<entry>>]
    ELSE LET read == NonBlank(lines)
             bad  == FirstBadLine(read, user_name)
         IN  IF bad # 0
             THEN [out |-> Raised(LineError(read[bad], user_name)), write |-> <<>>]
             ELSE LET u == Unwind(Replay(read), user_name, now)
                  IN  [out |-> Returned(u.resp), write |-> u.write]

(***************************************************************************)
(* State                                                                   *)
(***************************************************************************)
VARIABLES
    files,      \* path -> the lines of the file
    dir,        \* the paths that exist in the journal directory
    lockedBy,   \* path -> the worker whose open file holds the flock, or NoWorker
    clock,      \* what datetime.utcnow() returned last, in seconds
    pc,         \* worker -> where it is in its call
    call,       \* worker -> the call it is in: arguments and open file
    own,        \* worker -> the subject it started and has not yet finished
    hist,       \* subject -> the last completed calls, oldest first
    lease,      \* subject -> date of the Started entry of the latest successful
                \* unforced try_start, until a finish or abandon takes a step
    ncalls,     \* calls begun so far
    probe,      \* an entry on its way through str() and from_str()
    batch       \* a run of process_journal over a journal directory

vars == <<files, dir, lockedBy, clock, pc, call, own, hist, lease, ncalls, probe,
          batch>>

\* _journal_for_user, naming the file by the name as it was spelled
journal_for_user_as_spelled(user_name) == JoinTabs(user_name) \o JOURNAL_FILE_EXT

\* Journal._journal_for_user: the path of the user's file
journal_for_user(user_name) == JoinTabs(Lower(user_name)) \o JOURNAL_FILE_EXT

\* a subject is a user name up to letter case
SubjectOf(user_name) == Lower(user_name)

Paths == {journal_for_user(u) : u \in UserNames}
Subjects == {SubjectOf(u) : u \in UserNames}

\* the budget of try_lock counts tenths of a second: each failed attempt takes 0.1
TimeoutTenths(timeout_secs) == timeout_secs * 10

NoCall ==
    [op |-> "none", user_name |-> <<>>, from_max_id |-> None, entry |-> None,
     path |-> "", mode |-> "", pos |-> 0, wrote |-> <<>>, timeout |-> 0,
     out |-> ReturnedNothing, alone |-> TRUE, now |-> 0, lease0 |-> None]

InFlight(w) == pc[w] # "idle"

OthersOn(w, subject) ==
    {v \in Workers \ {w} : InFlight(v) /\ SubjectOf(call[v].user_name) = subject}

\* the history variable: a call that begins while another call on the same
\* subject is in flight makes both of them overlapped
MarkOverlap(w, subject, c) ==
    [v \in Workers |->
        IF v = w THEN [c EXCEPT !.alone = (OthersOn(w, subject) = {})]
        ELSE IF v \in OthersOn(w, subject) THEN [call[v] EXCEPT !.alone = FALSE]
        ELSE call[v]]

\* the history variable: a finish or abandon that takes a step ends the lease
\* that the try_start calls in flight on the subject found when they began
Disturb(calls, subject) ==
    [v \in Workers |->
        IF SubjectOf(calls[v].user_name) = subject
        THEN [calls[v] EXCEPT !.lease0 = None] ELSE calls[v]]

Remember(h, summary) ==
    LET all == Append(h, summary)
    IN  IF Len(all) > HistLen THEN Tail(all) ELSE all

Summary(w, c, out, wrote) ==
    [op |-> c.op, forced |-> (c.op = "try_start" /\ c.from_max_id # None),
     worker |-> w, user_name |-> c.user_name,
     old |-> IF c.op = "try_start" THEN c.from_max_id ELSE c.entry[1].old_max_id,
     new |-> IF c.op = "finish" THEN c.entry[1].new_max_id ELSE None,
     new_date |-> IF c.op = "finish" THEN c.entry[1].new_max_date ELSE None,
     out |-> out, wrote |-> wrote, alone |-> c.alone, now |-> c.now,
     lease0 |-> c.lease0]

Succeeded(out) ==
    /\ out.raised = ""
    /\ out.resp # None
    /\ out.resp[1].result_type \in {"NotFound", "Found"}

(***************************************************************************)
(* flock(2) on the open file of a worker                                   *)
(***************************************************************************)
\* flock(fd, LOCK_EX | LOCK_NB) succeeds
flock_free(path, w) == lockedBy[path] \in {NoWorker, w}

\* unlock that leaves the lock where it is
unlock_nothing(path, w) == lockedBy

\* unlock, taking the lock away from whoever holds it
unlock_of_anyone(path, w) == [lockedBy EXCEPT ![path] = NoWorker]

\* unlock(f): flock(fd, LOCK_UN) gives up the lock the caller's open file holds
unlock(path, w) ==
    [lockedBy EXCEPT ![path] = IF lockedBy[path] = w THEN NoWorker ELSE lockedBy[path]]

(***************************************************************************)
(* Calls                                                                   *)
(***************************************************************************)
\* datetime.utcnow(): time has passed since the clock was last read, by none,
\* some or all of the steps the model's clock can still take
UtcNow == {t \in Times : t >= clock}

\* where a call stands after its first flock: holding the lock, or retrying
AfterFirstFlock(path, w) == IF flock_free(path, w) THEN "locked" ELSE "lock"

FirstFlock(path, w) ==
    IF flock_free(path, w) THEN [lockedBy EXCEPT ![path] = w] ELSE lockedBy

\* try_start up to the first flock of its try_lock: _journal_for_user
\* touches the file, open "r+".  A worker that starts again has dropped what
\* it had started (its loop raised, or its process died and was run again).
TryStartOpen(w, user_name, from_max_id) ==
    /\ pc[w] = "idle"
    /\ ncalls < MaxCalls
    /\ LET path == journal_for_user(user_name)
           c == [NoCall EXCEPT !.op = "try_start", !.user_name = user_name,
                               !.from_max_id = from_max_id, !.path = path,
                               !.mode = "r+",
                               !.timeout = TimeoutTenths(JOURNAL_ACCESS_TIMEOUT_SECS),
                               !.lease0 = lease[SubjectOf(user_name)]]
       IN  /\ dir' = dir \cup {path}
           /\ call' = MarkOverlap(w, SubjectOf(user_name), c)
           /\ pc' = [pc EXCEPT ![w] = AfterFirstFlock(path, w)]
           /\ lockedBy' = FirstFlock(path, w)
    /\ ncalls' = ncalls + 1
    /\ own' = [own EXCEPT ![w] = None]
    /\ UNCHANGED <<probe, batch, files, clock, hist, lease>>

\* finish and abandon up to the first flock of their try_lock: the entry is
\* made first, then the file is touched and opened "a"
AppendOpen(w, op, entry) ==
    /\ pc[w] = "idle"
    /\ ncalls < MaxCalls
    /\ LET path == journal_for_user(entry.user_name)
           c == [NoCall EXCEPT !.op = op, !.user_name = entry.user_name,
                               !.entry = Some(entry), !.path = path, !.mode = "a",
                               !.timeout = TimeoutTenths(JOURNAL_ACCESS_TIMEOUT_SECS),
                               !.now = entry.date]
       IN  /\ dir' = dir \cup {path}
           /\ call' = Disturb(MarkOverlap(w, SubjectOf(entry.user_name), c),
                              SubjectOf(entry.user_name))
           /\ pc' = [pc EXCEPT ![w] = AfterFirstFlock(path, w)]
           /\ lockedBy' = FirstFlock(path, w)
    /\ ncalls' = ncalls + 1
    /\ clock' = entry.date
    /\ lease' = [lease EXCEPT ![SubjectOf(entry.user_name)] = None]
    /\ UNCHANGED <<probe, batch, files, own, hist>>

\* the callers finish or abandon what they started, under any spelling of it
FinishOpen(w, user_name, new_max_id, new_max_date) ==
    /\ own[w] # None
    /\ SubjectOf(user_name) = own[w][1].subject
    /\ \E now \in UtcNow :
          AppendOpen(w, "finish",
                     finished_now(now, user_name, own[w][1].max_id,
                                  new_max_id, new_max_date))

AbandonOpen(w, user_name) ==
    /\ own[w] # None
    /\ SubjectOf(user_name) = own[w][1].subject
    /\ \E now \in UtcNow :
          AppendOpen(w, "abandon", abandoned_now(now, user_name, own[w][1].max_id))

\* try_lock: a later flock succeeds and the loop is left
TryLockOk(w) ==
    /\ pc[w] = "lock"
    /\ flock_free(call[w].path, w)
    /\ lockedBy' = [lockedBy EXCEPT ![call[w].path] = w]
    /\ pc' = [pc EXCEPT ![w] = "locked"]
    /\ UNCHANGED <<probe, batch, files, dir, clock, call, own, hist, lease, ncalls>>

\* try_lock: flock fails with EAGAIN while budget is left; one step stands
\* for one failed attempt, or for the run of failed attempts that uses the
\* budget up
TryLockRetry(w) ==
    /\ pc[w] = "lock"
    /\ ~flock_free(call[w].path, w)
    /\ call[w].timeout > 0
    /\ \/ /\ call[w].timeout >
               TimeoutTenths(JOURNAL_ACCESS_TIMEOUT_SECS) - MaxSingleRetries
          /\ call' = [call EXCEPT ![w].timeout = @ - 1]
       \/ call' = [call EXCEPT ![w].timeout = 0]
    /\ UNCHANGED <<probe, batch, files, dir, lockedBy, clock, pc, own, hist, lease, ncalls>>

\* what a completed call leaves in the history variables
Completed(w, c, out, wrote) ==
    LET subject == SubjectOf(c.user_name)
    IN  /\ hist' = [hist EXCEPT ![subject] = Remember(@, Summary(w, c, out, wrote))]
        /\ own' = [own EXCEPT ![w] =
                     IF c.op = "try_start"
                     THEN IF Succeeded(out) \/ (out.raised = "" /\ c.from_max_id # None)
                          THEN Some([subject |-> subject, max_id |-> out.resp[1].max_id,
                                     forced |-> c.from_max_id # None])
                          ELSE @
                     ELSE IF out.raised = "" THEN None ELSE @]
        /\ lease' = [lease EXCEPT ![subject] =
                     IF c.op = "try_start"
                     THEN IF Succeeded(out) /\ c.from_max_id = None
                          THEN IF @ # None /\ @[1] > wrote[1].date
                               THEN @ ELSE Some(wrote[1].date)
                          ELSE @
                     ELSE None]

\* try_lock: flock fails with EAGAIN and the budget is used up: the error is
\* raised again.  try_start runs its finally (unlock) on the way out; finish
\* and abandon call try_lock outside their try.  The with statement closes
\* the file, which has nothing to flush.
TryLockTimeout(w) ==
    /\ pc[w] = "lock"
    /\ ~flock_free(call[w].path, w)
    /\ call[w].timeout <= 0
    /\ lockedBy' = IF call[w].op = "try_start" THEN unlock(call[w].path, w)
                   ELSE lockedBy
    /\ pc' = [pc EXCEPT ![w] = "idle"]
    /\ call' = IF call[w].op = "try_start" THEN [call EXCEPT ![w] = NoCall]
               ELSE Disturb([call EXCEPT ![w] = NoCall], SubjectOf(call[w].user_name))
    /\ Completed(w, call[w], Raised("BlockingIOError"), <<>>)
    /\ UNCHANGED <<probe, batch, files, dir, clock, ncalls>>

\* try_start from the lock to the unlock of its finally: the body reads the
\* file to its end (or seeks there), settles the response, hands the new
\* entry to f.write, which buffers it, and the lock is given up.  With
\* nothing buffered the close that follows changes nothing, and the call is
\* over; with an entry buffered the file is still to be closed.
TryStartCritical(w) ==
    /\ pc[w] = "locked"
    /\ call[w].op = "try_start"
    /\ \E now \in UtcNow :
          LET c    == call[w]
              body == TryStartBody(files[c.path], c.user_name, c.from_max_id, now)
              c2   == [c EXCEPT !.pos = Size(files[c.path]), !.wrote = body.write,
                                !.out = body.out, !.now = now]
          IN  /\ clock' = now
              /\ IF body.write = <<>>
                 THEN /\ pc' = [pc EXCEPT ![w] = "idle"]
                      /\ call' = [call EXCEPT ![w] = NoCall]
                      /\ Completed(w, c2, body.out, <<>>)
                 ELSE /\ pc' = [pc EXCEPT ![w] = "close"]
                      /\ call' = [call EXCEPT ![w] = c2]
                      /\ UNCHANGED <<own, hist, lease>>
    /\ lockedBy' = unlock(call[w].path, w)
    /\ UNCHANGED <<probe, batch, files, dir, ncalls>>

\* finish and abandon from the lock to the unlock of their finally
AppendCritical(w) ==
    /\ pc[w] = "locked"
    /\ call[w].op \in {"finish", "abandon"}
    /\ call' = [call EXCEPT ![w].wrote = call[w].entry]
    /\ lockedBy' = unlock(call[w].path, w)
    /\ pc' = [pc EXCEPT ![w] = "close"]
    /\ UNCHANGED <<probe, batch, files, dir, clock, own, hist, lease, ncalls>>

\* the bytes a handle puts into its file when it is flushed
Flush(lines, mode, pos, wrote) ==
    IF wrote = <<>> THEN lines
    ELSE IF mode = "a" THEN WriteAppend(lines, Str(wrote[1]))
    ELSE WriteAt(lines, pos, Str(wrote[1]))

\* the with statement is left: the file is closed, which flushes what
\* f.write buffered, and the call returns or raises
Close(w) ==
    /\ pc[w] = "close"
    /\ LET c == call[w]
       IN  /\ files' = [files EXCEPT ![c.path] = Flush(@, c.mode, c.pos, c.wrote)]
           /\ Completed(w, c, c.out, c.wrote)
           /\ call' = IF c.op = "try_start" THEN [call EXCEPT ![w] = NoCall]
                      ELSE Disturb([call EXCEPT ![w] = NoCall], SubjectOf(c.user_name))
    /\ pc' = [pc EXCEPT ![w] = "idle"]
    /\ UNCHANGED <<probe, batch, dir, lockedBy, clock, ncalls>>

(***************************************************************************)
(* The journal directory at the start: empty, as create_journal left it    *)
(* (one finish per user, with old_max_id = -1, on a new directory), or as  *)
(* one pass of process_journal left it after that when the user had no new *)
(* tweets (try_start, then finish with old_max_id = new_max_id = max_id    *)
(* and the tweet date strip_timezone made of the one it was given)         *)
(***************************************************************************)
CreatedLine(user_name) ==
    Str(finished_now(0, user_name, Some(-1), Some(42), Some(7)))

PassedLines(user_name) ==
    << Str(started_now(0, user_name, Some(42))),
       Str(finished_now(0, user_name, Some(42), Some(42), Some(8))) >>

JournalsAtStart ==
    { <<>>, <<CreatedLine(<<"bob">>)>>,
      <<CreatedLine(<<"bob">>)>> \o PassedLines(<<"bob">>) }

InitCommon ==
    /\ lockedBy = [p \in Paths |-> NoWorker]
    /\ clock = 0
    /\ pc = [w \in Workers |-> "idle"]
    /\ call = [w \in Workers |-> NoCall]
    /\ own = [w \in Workers |-> None]
    /\ hist = [s \in Subjects |-> <<>>]
    /\ lease = [s \in Subjects |-> None]
    /\ ncalls = 0

\* process_journal is not running
NoBatch == [stage |-> "none"]

\* no entry is on its way
NoProbe == [stage |-> "none", entry |-> None, text |-> <<>>, back |-> None]

InitFrom(journals) ==
    /\ \E lines \in journals :
          /\ files = [p \in Paths |-> lines]
          /\ dir = IF lines = <<>> THEN {} ELSE Paths
    /\ InitCommon
    /\ probe = NoProbe
    /\ batch = NoBatch

Init == InitFrom(JournalsAtStart)

Next ==
    \/ \E w \in Workers, m \in {None} \cup {Some(i) : i \in ForcedIds} :
          TryStartOpen(w, SpellingOf(w), m)
    \/ \E w \in Workers, b \in Batches :
          FinishOpen(w, SpellingOf(w), Some(b[1]), Some(b[2]))
    \/ \E w \in Workers : AbandonOpen(w, SpellingOf(w))
    \/ \E w \in Workers : TryLockOk(w)
    \/ \E w \in Workers : TryLockRetry(w)
    \/ \E w \in Workers : TryLockTimeout(w)
    \/ \E w \in Workers : TryStartCritical(w)
    \/ \E w \in Workers : AppendCritical(w)
    \/ \E w \in Workers : Close(w)

Spec == Init /\ [][Next]_vars

(***************************************************************************)
(* Journal files that were written to by hand before the program runs: an  *)
(* entry of another subject, a line that does not decode                   *)
(***************************************************************************)
SeededJournals ==
    { <<Str(started_now(0, <<"eve">>, None))>>,
      <<CreatedLine(<<"bob">>), Str(finished_now(0, <<"Eve">>, Some(42), Some(100), Some(8)))>>,
      <<CreatedLine(<<"bob">>), <<"D0000", "bob", "Stopped">> >> }

InitSeeded == InitFrom(JournalsAtStart \cup SeededJournals)

SpecSeeded == InitSeeded /\ [][Next]_vars

(***************************************************************************)
(* str() and from_str() on their own: an entry is made, turned into text   *)
(* and read back.  A user name is the sequence of its pieces between tabs, *)
(* so <<"a", "b">> is the name with one tab in it.                         *)
(***************************************************************************)
EntryNames == {<<"bob">>, <<"Bob">>, <<"">>, <<"a", "b">>}

Options(values) == {None} \cup {Some(v) : v \in values}

Entries ==
    { JournalEntry(d, u, t, o, n, nd) :
        d \in Times, u \in EntryNames, t \in EntryTypeNames,
        o \in Options(IdValues), n \in Options(IdValues), nd \in Options(TweetDates) }

\* a call of from_str: the entry it returns, or the exception it raises
FromStrCall(parts) ==
    IF FromStrOk(parts) THEN [raised |-> "", entry |-> Some(from_str(parts))]
    ELSE [raised |-> FromStrError(parts), entry |-> None]

InitEntry ==
    /\ files = [p \in Paths |-> <<>>]
    /\ dir = {}
    /\ InitCommon
    /\ \E e \in Entries : probe = [NoProbe EXCEPT !.stage = "entry", !.entry = Some(e)]
    /\ batch = NoBatch

\* str(e)
StrOfEntry ==
    /\ probe.stage = "entry"
    /\ probe' = [probe EXCEPT !.stage = "text", !.text = Str(probe.entry[1])]
    /\ UNCHANGED <<batch, files, dir, lockedBy, clock, pc, call, own, hist, lease, ncalls>>

\* JournalEntry.from_str(line)
FromStrOfText ==
    /\ probe.stage = "text"
    /\ probe' = [probe EXCEPT !.stage = "decoded", !.back = Some(FromStrCall(probe.text))]
    /\ UNCHANGED <<batch, files, dir, lockedBy, clock, pc, call, own, hist, lease, ncalls>>

NextEntry == StrOfEntry \/ FromStrOfText

SpecEntry == InitEntry /\ [][NextEntry]_vars

(***************************************************************************)
(* try_lock attempt by attempt: every failed flock takes a tenth of a      *)
(* second off the budget.  Workers call unforced try_start; a worker that  *)
(* is in try_lock keeps running its loop.                                  *)
(***************************************************************************)
\* a budget that is filled up again when it is used up
AfterFailedAttempt_refilled(timeout) ==
    IF timeout > 1 THEN timeout - 1 ELSE TimeoutTenths(JOURNAL_ACCESS_TIMEOUT_SECS)

\* timeout_secs -= 0.1
AfterFailedAttempt(timeout) == timeout - 1

\* try_lock: flock fails with EAGAIN while budget is left
TryLockFails(w) ==
    /\ pc[w] = "lock"
    /\ ~flock_free(call[w].path, w)
    /\ call[w].timeout > 0
    /\ call' = [call EXCEPT ![w].timeout = AfterFailedAttempt(@)]
    /\ UNCHANGED <<probe, batch, files, dir, lockedBy, clock, pc, own, hist, lease, ncalls>>

TryLockStep(w) == TryLockOk(w) \/ TryLockFails(w) \/ TryLockTimeout(w)

NextTryLock ==
    \/ \E w \in Workers : TryStartOpen(w, SpellingOf(w), None)
    \/ \E w \in Workers : TryLockOk(w)
    \/ \E w \in Workers : TryLockFails(w)
    \/ \E w \in Workers : TryLockTimeout(w)
    \/ \E w \in Workers : TryStartCritical(w)
    \/ \E w \in Workers : Close(w)

\* one worker is in the critical section of an unforced try_start, and one
\* more call can begin
InitTryLock ==
    /\ \E lines \in JournalsAtStart : files = [p \in Paths |-> lines]
    /\ dir = Paths
    /\ lockedBy = [p \in Paths |-> 1]
    /\ clock = 0
    /\ pc = [w \in Workers |-> IF w = 1 THEN "locked" ELSE "idle"]
    /\ call = [w \in Workers |->
                 IF w = 1
                 THEN [NoCall EXCEPT !.op = "try_start", !.user_name = SpellingOf(1),
                                     !.path = journal_for_user(SpellingOf(1)),
                                     !.mode = "r+",
                                     !.timeout = TimeoutTenths(JOURNAL_ACCESS_TIMEOUT_SECS)]
                 ELSE NoCall]
    /\ own = [w \in Workers |-> None]
    /\ hist = [s \in Subjects |-> <<>>]
    /\ lease = [s \in Subjects |-> None]
    /\ ncalls = MaxCalls - 1
    /\ probe = NoProbe
    /\ batch = NoBatch

SpecTryLock ==
    /\ InitTryLock
    /\ [][NextTryLock]_vars
    /\ \A w \in Workers : WF_vars(TryLockStep(w))

(***************************************************************************)
(* process_journal (src/main.py) over a journal directory: the directory   *)
(* is listed by journalled_users and every user listed is handled in turn, *)
(* by one process.  The directory holds journal files, and may hold files  *)
(* and directories that were put there by hand.                            *)
(***************************************************************************)
StartsWith(s, prefix) ==
    Len(s) >= Len(prefix) /\ SubSeq(s, 1, Len(prefix)) = prefix

EndsWith(s, suffix) ==
    Len(s) >= Len(suffix) /\ SubSeq(s, Len(s) - Len(suffix) + 1, Len(s)) = suffix

\* _user_for_journal, without the check for hidden files
user_for_journal_hidden_too(name, kind) ==
    IF kind # "file" THEN None
    ELSE IF ~EndsWith(name, JOURNAL_FILE_EXT) THEN None
    ELSE Some(SubSeq(name, 1, Len(name) - Len(JOURNAL_FILE_EXT)))

\* Journal._user_for_journal, of a directory entry of this name and kind
user_for_journal(name, kind) ==
    IF kind # "file" THEN None
    ELSE IF StartsWith(name, ".") THEN None
    ELSE IF ~EndsWith(name, JOURNAL_FILE_EXT) THEN None
    ELSE Some(SubSeq(name, 1, Len(name) - Len(JOURNAL_FILE_EXT)))

\* the names os.listdir returns
ListDir(entries) == {n \in DOMAIN entries : entries[n].kind # "absent"}

\* the lists without repetition of the members of a set, at one place each
Orderings(S) ==
    {q \in [1..Cardinality(S) -> S] : \A i, j \in 1..Cardinality(S) : q[i] = q[j] => i = j}

\* Journal.journalled_users: one user per entry of the listing that
\* _user_for_journal does not turn down, in the order of the listing
journalled_users(entries) ==
    LET kept == {n \in ListDir(entries) : user_for_journal(n, entries[n].kind) # None}
    IN  { [i \in 1..Cardinality(kept) |-> user_for_journal(q[i], entries[q[i]].kind)[1]] :
            q \in Orderings(kept) }

\* strip_timezone: the date with its seconds replaced by its month; of the
\* tweet dates of the model, 7 is a date whose seconds are not its month and
\* 8 is the date that strip_timezone makes of it
strip_timezone(old_date_time) == IF old_date_time = 7 THEN 8 ELSE old_date_time

DirNames ==
    {"bob.journal", "eve.journal", ".bob.journal", "Eve.journal", "notes.txt",
     "old.journal"}

\* names that callers outside the batch pass to try_start, finish or abandon
BatchCallers == {<<"bob">>, <<"Eve">>, <<".bob">>}

Absent == [kind |-> "absent", lines |-> <<>>]
FileOf(lines) == [kind |-> "file", lines |-> lines]
Directory == [kind |-> "dir", lines |-> <<>>]

\* a journal with a lease that was taken at time 0
LeasedLines(user_name) ==
    <<CreatedLine(user_name), Str(started_now(0, user_name, Some(42)))>>

BatchDirs ==
    { [n \in DirNames |->
         CASE n = "bob.journal" -> b
           [] n = "eve.journal" -> e
           [] n = "old.journal" -> IF "old.journal" \in others THEN Directory ELSE Absent
           [] OTHER -> IF n \in others THEN FileOf(<<>>) ELSE Absent] :
        b \in {Absent} \cup {FileOf(l) : l \in JournalsAtStart \cup SeededJournals
                                               \cup {LeasedLines(<<"bob">>)}},
        e \in {Absent, FileOf(<<CreatedLine(<<"eve">>)>>)},
        others \in {h \cup c : h \in {{}, {".bob.journal", "notes.txt", "old.journal"}},
                               c \in {{}, {"Eve.journal"}}} }

InitBatch ==
    /\ files = [p \in Paths |-> <<>>]
    /\ dir = {}
    /\ InitCommon
    /\ probe = NoProbe
    /\ \E d \in BatchDirs, h \in SUBSET {"bob.journal"} :
          batch = [stage |-> "start", entries |-> d, held |-> h, called |-> {},
                   users |-> <<>>, at |-> 0, raised |-> "", calls |-> <<>>]

BatchFrame ==
    UNCHANGED <<files, dir, lockedBy, pc, call, own, hist, lease, ncalls, probe>>

\* Path(journal_file).touch(exist_ok=True)
Touch(entries, path) ==
    IF entries[path].kind = "absent" THEN [entries EXCEPT ![path] = FileOf(<<>>)]
    ELSE entries

\* a call of try_start, finish or abandon from outside the batch, as far as
\* the directory goes: _journal_for_user makes sure the file is there
BatchTouch(user_name) ==
    /\ batch.stage = "start"
    /\ user_name \notin batch.called
    /\ batch' = [batch EXCEPT !.entries = Touch(@, journal_for_user(user_name)),
                              !.called = @ \cup {user_name}]
    /\ UNCHANGED clock
    /\ BatchFrame

\* jrnl.journalled_users()
BatchList ==
    /\ batch.stage = "start"
    /\ \E users \in journalled_users(batch.entries) :
          batch' = [batch EXCEPT !.stage = "loop", !.users = users, !.at = 1]
    /\ UNCHANGED clock
    /\ BatchFrame

\* the user the loop is at, and the file of that user
ScreenName == <<batch.users[batch.at]>>
AtUser == batch.stage = "loop" /\ batch.at <= Len(batch.users)

\* the try_start of the loop, leaving the file as it is
LoopTryStart_writes_nothing(now) ==
    LET path    == journal_for_user(ScreenName)
        touched == Touch(batch.entries, path)
        body    == IF path \in batch.held
                   THEN [out |-> Raised("BlockingIOError"), write |-> <<>>]
                   ELSE TryStartBody(touched[path].lines, ScreenName, None, now)
    IN  [out |-> body.out, entries |-> touched]

\* try_start of the loop, by one process: what it returns or raises, and the
\* directory after it
LoopTryStart(now) ==
    LET path    == journal_for_user(ScreenName)
        touched == Touch(batch.entries, path)
        body    == IF path \in batch.held
                   THEN [out |-> Raised("BlockingIOError"), write |-> <<>>]
                   ELSE TryStartBody(touched[path].lines, ScreenName, None, now)
    IN  [out |-> body.out,
         entries |-> IF body.write = <<>> THEN touched
                     ELSE [touched EXCEPT ![path].lines = Append(@, Str(body.write[1]))]]

\* what the loop remembers of a call
LoopCall(op, old, out) == [op |-> op, user_name |-> ScreenName, old |-> old, out |-> out]

\* try_start raises: process_journal has no handler, the exception ends it
BatchTryStartRaises ==
    /\ AtUser
    /\ \E now \in UtcNow :
          LET t == LoopTryStart(now)
          IN  /\ t.out.raised # ""
              /\ batch' = [batch EXCEPT !.stage = "ended", !.entries = t.entries,
                                        !.raised = t.out.raised,
                                        !.calls = Append(@, LoopCall("try_start", None, t.out))]
              /\ clock' = now
    /\ BatchFrame

\* try_start returns NotFound: process_journal raises ValueError
BatchNotFound ==
    /\ AtUser
    /\ \E now \in UtcNow :
          LET t == LoopTryStart(now)
          IN  /\ t.out.raised = ""
              /\ t.out.resp[1].result_type = "NotFound"
              /\ batch' = [batch EXCEPT !.stage = "ended", !.entries = t.entries,
                                        !.raised = "ValueError: unexpected result type",
                                        !.calls = Append(@, LoopCall("try_start", None, t.out))]
              /\ clock' = now
    /\ BatchFrame

\* try_start returns InUse: continue
BatchInUse ==
    /\ AtUser
    /\ \E now \in UtcNow :
          LET t == LoopTryStart(now)
          IN  /\ t.out.raised = ""
              /\ t.out.resp[1].result_type = "InUse"
              /\ batch' = [batch EXCEPT !.entries = t.entries, !.at = @ + 1,
                                        !.calls = Append(@, LoopCall("try_start", None, t.out))]
              /\ clock' = now
    /\ BatchFrame

\* the tweets downloaded: none (also when the download is skipped), or a
\* batch whose oldest tweet has this id and date
Downloads == {None} \cup {Some(b) : b \in Batches}

\* try_start returns Found, the tweets are fetched and written, and finish
\* is called
BatchFinish ==
    /\ AtUser
    /\ \E now \in UtcNow, tweets \in Downloads :
          LET t     == LoopTryStart(now)
              resp  == t.out.resp[1]
              path  == journal_for_user(ScreenName)
              last_tweet_date == strip_timezone(resp.last_tweet_date_utc[1])
              entry == IF tweets = None
                       THEN finished_now(now, ScreenName, resp.max_id, resp.max_id,
                                         Some(last_tweet_date))
                       ELSE finished_now(now, ScreenName, resp.max_id,
                                         Some(tweets[1][1]), Some(tweets[1][2]))
          IN  /\ t.out.raised = ""
              /\ resp.result_type = "Found"
              /\ batch' = [batch EXCEPT
                             !.entries = [t.entries EXCEPT ![path].lines = Append(@, Str(entry))],
                             !.at = @ + 1,
                             !.calls = @ \o <<LoopCall("try_start", None, t.out),
                                              LoopCall("finish", resp.max_id, ReturnedNothing)>>]
              /\ clock' = now
    /\ BatchFrame

\* try_start returns Found and the download raises: the handler that would
\* call abandon is commented out, the exception ends process_journal
BatchFetchFails ==
    /\ AtUser
    /\ \E now \in UtcNow :
          LET t == LoopTryStart(now)
          IN  /\ t.out.raised = ""
              /\ t.out.resp[1].result_type = "Found"
              /\ batch' = [batch EXCEPT !.stage = "ended", !.entries = t.entries,
                                        !.raised = "TweepError",
                                        !.calls = Append(@, LoopCall("try_start", None, t.out))]
              /\ clock' = now
    /\ BatchFrame

\* the for loop is through: process_journal returns
BatchReturns ==
    /\ batch.stage = "loop"
    /\ batch.at > Len(batch.users)
    /\ batch' = [batch EXCEPT !.stage = "ended"]
    /\ UNCHANGED clock
    /\ BatchFrame

NextBatch ==
    \/ \E u \in BatchCallers : BatchTouch(u)
    \/ BatchList
    \/ BatchTryStartRaises
    \/ BatchNotFound
    \/ BatchInUse
    \/ BatchFinish
    \/ BatchFetchFails
    \/ BatchReturns

SpecBatch == InitBatch /\ [][NextBatch]_vars

(***************************************************************************)
(* The program from an empty journal directory: create_journal writes the  *)
(* journals of the users it found in the tweets files, then                *)
(* process_journal is run on the directory.                                *)
(***************************************************************************)
\* the keys of user_ids, as the tweets files spell them
CreatedUsers == {<<"bob">>, <<"Eve">>, <<"eve">>}

\* the users of the tweets files: one, two, or one in two spellings
UserIds == {{<<"bob">>}, {<<"bob">>, <<"Eve">>}, {<<"Eve">>, <<"eve">>}}

InitProgram ==
    /\ files = [p \in Paths |-> <<>>]
    /\ dir = {}
    /\ InitCommon
    /\ probe = NoProbe
    /\ \E user_ids \in UserIds :
          batch = [stage |-> "create", entries |-> [n \in DirNames |-> Absent],
                   held |-> {}, called |-> {}, users |-> <<>>, at |-> 0,
                   raised |-> "", calls |-> <<>>, user_ids |-> user_ids, created |-> 0]

\* one turn of the loop of create_journal:
\* jrnl.finish(user_name=user, old_max_id=-1, new_max_id=tweet_id, new_max_date=tweet_date)
CreateFinish ==
    /\ batch.stage = "create"
    /\ \E user \in batch.user_ids, now \in UtcNow, oldest \in Batches :
          LET path  == journal_for_user(user)
              entry == finished_now(now, user, Some(-1), Some(oldest[1]), Some(oldest[2]))
          IN  /\ batch' = [batch EXCEPT
                             !.entries = [Touch(batch.entries, path) EXCEPT
                                            ![path].lines = Append(@, Str(entry))],
                             !.calls = Append(@, [op |-> "finish", user_name |-> user,
                                                  old |-> Some(-1), out |-> ReturnedNothing]),
                             !.created = @ + 1,
                             !.user_ids = @ \ {user}]
              /\ clock' = now
    /\ BatchFrame

\* create_journal returns; process_journal is run next
CreateReturns ==
    /\ batch.stage = "create"
    /\ batch.user_ids = {}
    /\ batch' = [batch EXCEPT !.stage = "start"]
    /\ UNCHANGED clock
    /\ BatchFrame

\* another process, running process_journal on the same directory, has
\* called try_start on a new journal by the time this one lists the directory
OtherStart ==
    /\ batch.stage = "start"
    /\ \E user \in CreatedUsers, now \in UtcNow :
          LET path == journal_for_user(user)
              body == TryStartBody(batch.entries[path].lines, user, None, now)
          IN  /\ batch.entries[path].kind = "file"
              /\ path \notin batch.held
              /\ Len(batch.entries[path].lines) = 1
              /\ body.write # <<>>
              /\ batch' = [batch EXCEPT !.entries[path].lines = Append(@, Str(body.write[1]))]
              /\ clock' = now
    /\ BatchFrame

\* another process keeps the lock of a journal for longer than
\* JOURNAL_ACCESS_TIMEOUT_SECS
OtherHolds ==
    /\ batch.stage = "start"
    /\ batch.held = {}
    /\ \E user \in CreatedUsers :
          /\ batch.entries[journal_for_user(user)].kind = "file"
          /\ batch' = [batch EXCEPT !.held = {journal_for_user(user)}]
    /\ UNCHANGED clock
    /\ BatchFrame

NextProgram ==
    \/ CreateFinish
    \/ CreateReturns
    \/ OtherStart
    \/ OtherHolds
    \/ BatchTouch(<<"bob">>)
    \/ BatchList
    \/ BatchTryStartRaises
    \/ BatchNotFound
    \/ BatchInUse
    \/ BatchFinish
    \/ BatchFetchFails
    \/ BatchReturns

SpecProgram == InitProgram /\ [][NextProgram]_vars

(***************************************************************************)
(* The read loop and the unwind loop of try_start, entry by entry, over    *)
(* every journal of up to MaxEntries entries of one subject.               *)
(***************************************************************************)
MaxEntries == 3

ReplayEntries ==
    UNION { {started_now(0, u, old),
             finished_now(0, u, old, Some(100), Some(7)),
             abandoned_now(0, u, old)} :
            u \in {<<"bob">>, <<"Bob">>}, old \in {None, Some(42), Some(100)} }

ReplayJournals ==
    UNION { [1..n -> {Str(e) : e \in ReplayEntries}] : n \in 1..MaxEntries }

InitReplay ==
    /\ files = [p \in Paths |-> <<>>]
    /\ dir = {}
    /\ InitCommon
    /\ batch = NoBatch
    /\ \E lines \in ReplayJournals :
          probe = [stage |-> "replay", lines |-> lines, read |-> 0,
                   user_entries |-> <<>>, out |-> None]

ReplayFrame ==
    UNCHANGED <<batch, files, dir, lockedBy, pc, call, own, hist, lease, ncalls>>

\* one turn of "for line in f"
ReplayRead ==
    /\ probe.stage = "replay"
    /\ probe.read < Len(probe.lines)
    /\ probe' = [probe EXCEPT
                   !.read = @ + 1,
                   !.user_entries = PushEntry(@, from_str(probe.lines[probe.read + 1]))]
    /\ UNCHANGED clock
    /\ ReplayFrame

\* the while loop over user_entries, at some time of day
ReplayUnwind ==
    /\ probe.stage = "replay"
    /\ probe.read = Len(probe.lines)
    /\ \E now \in UtcNow :
          /\ probe' = [probe EXCEPT
                         !.stage = "unwound",
                         !.out = Some(Unwind(probe.user_entries, <<"bob">>, now))]
          /\ clock' = now
    /\ ReplayFrame

NextReplay == ReplayRead \/ ReplayUnwind

SpecReplay == InitReplay /\ [][NextReplay]_vars

(***************************************************************************)
(* from_str over lines of every number of fields, well-formed or not.  A   *)
(* line is given by its fields, as line.strip().split('\t') yields them.   *)
(***************************************************************************)
MaxFields == 7

\* what the field at a place can hold: right values and wrong ones
FieldValues(i) ==
    CASE i = 1 -> {IsoFormat(0), ""}
      [] i = 2 -> {"bob"}
      [] i = 3 -> EntryTypeNames \cup {"Stopped"}
      [] i \in {4, 5} -> {StrOfNone, "42", "x"}
      [] i = 6 -> {StrOfNone, IsoFormat(7), "x"}
      [] OTHER -> {"extra"}

RECURSIVE LinesOf(_)
\* the lines of n fields
LinesOf(n) ==
    IF n = 0 THEN {<<>>}
    ELSE {Append(q, v) : q \in LinesOf(n - 1), v \in FieldValues(n)}

DecodeLines == UNION {LinesOf(n) : n \in 1..MaxFields}

InitDecode ==
    /\ files = [p \in Paths |-> <<>>]
    /\ dir = {}
    /\ InitCommon
    /\ batch = NoBatch
    /\ \E q \in DecodeLines : probe = [NoProbe EXCEPT !.stage = "text", !.text = q]

NextDecode == FromStrOfText

SpecDecode == InitDecode /\ [][NextDecode]_vars

(***************************************************************************)
(* Properties                                                              *)
(***************************************************************************)
\* the completed calls the history still holds
Calls == UNION {{hist[s][i] : i \in DOMAIN hist[s]} : s \in Subjects}

UnforcedStart(h) == h.op = "try_start" /\ ~h.forced
Responded(h) == h.out.raised = "" /\ h.out.resp # None
ResultType(h) == h.out.resp[1].result_type

\* C1: once an unforced try_start has returned NotFound or Found, every
\* unforced try_start on the subject that begins later, with no finish or
\* abandon of the subject in between and no more than the expiry threshold
\* after the Started entry of the first, returns InUse.
C1_LaterStartIsInUse ==
    \A h \in Calls :
        ( /\ UnforcedStart(h)
          /\ Responded(h)
          /\ h.lease0 # None
          /\ h.now - h.lease0[1] <= TRANSACTION_EXPIRY_TIMEOUT_SECS )
        => ResultType(h) = "InUse"

\* the subject a worker is processing: it got NotFound or Found from an
\* unforced try_start and has not yet appended its Finished or Abandoned
Processing(w, subject) ==
    /\ own[w] # None
    /\ own[w][1].subject = subject
    /\ ~own[w][1].forced

\* C2: no two workers are ever processing the same subject at the same time.
C2_MutualExclusion ==
    \A s \in Subjects : \A w1, w2 \in Workers :
        (Processing(w1, s) /\ Processing(w2, s)) => w1 = w2

\* an unforced try_start that has settled on NotFound or Found and is about
\* to leave its with statement
Settled(w, subject) ==
    /\ pc[w] = "close"
    /\ call[w].op = "try_start"
    /\ call[w].from_max_id = None
    /\ SubjectOf(call[w].user_name) = subject
    /\ Succeeded(call[w].out)

\* C3: of two unforced try_start calls on one subject that are in progress
\* at the same time, neither reading the clock more than the expiry
\* threshold after the other, at most one returns NotFound or Found.
C3_OneWinner ==
    \A s \in Subjects : \A w1, w2 \in Workers :
        ( /\ Settled(w1, s)
          /\ Settled(w2, s)
          /\ call[w2].now - call[w1].now \in 0..TRANSACTION_EXPIRY_TIMEOUT_SECS )
        => w1 = w2

\* two responses tell the same state of the subject
SameState(r1, r2) ==
    /\ r1.result_type = r2.result_type
    /\ r1.max_id = r2.max_id
    /\ r1.last_tweet_date_utc = r2.last_tweet_date_utc

\* the calls on a subject at places i, i+1, .. of its history ran one after
\* the other, none of them while another call on the subject was in flight
InARow(s, i, n) ==
    /\ i + n - 1 <= Len(hist[s])
    /\ \A k \in i..(i + n - 1) : hist[s][k].alone

\* the call at place i is an unforced try_start that returned NotFound or
\* Found, and the call after it is the same worker's abandon or finish
StartThen(s, i, op) ==
    /\ UnforcedStart(hist[s][i])
    /\ Succeeded(hist[s][i].out)
    /\ hist[s][i + 1].op = op
    /\ hist[s][i + 1].worker = hist[s][i].worker
    /\ hist[s][i + 1].out.raised = ""

\* C4: after an unforced try_start returned NotFound or Found and the same
\* worker called abandon with the watermark it was given, the next unforced
\* try_start, within the expiry threshold of the first, gets the response
\* the first one got.
C4_AbandonFrees ==
    \A s \in Subjects : \A i \in 1..HistLen :
        ( /\ InARow(s, i, 3)
          /\ StartThen(s, i, "abandon")
          /\ UnforcedStart(hist[s][i + 2])
          /\ hist[s][i + 2].now - hist[s][i].wrote[1].date
                <= TRANSACTION_EXPIRY_TIMEOUT_SECS )
        => /\ Responded(hist[s][i + 2])
           /\ SameState(hist[s][i + 2].out.resp[1], hist[s][i].out.resp[1])

\* C5: after an unforced try_start returned NotFound or Found and the same
\* worker called finish(s, o, w, D), the next unforced try_start returns
\* Found with max_id = w and last tweet date = D.
C5_FinishPairs ==
    \A s \in Subjects : \A i \in 1..HistLen :
        ( /\ InARow(s, i, 3)
          /\ StartThen(s, i, "finish")
          /\ UnforcedStart(hist[s][i + 2]) )
        => /\ Responded(hist[s][i + 2])
           /\ ResultType(hist[s][i + 2]) = "Found"
           /\ hist[s][i + 2].out.resp[1].max_id = hist[s][i + 1].new
           /\ hist[s][i + 2].out.resp[1].last_tweet_date_utc
                = hist[s][i + 1].new_date

C5_Witness ==
    \E s \in Subjects : \E i \in 1..HistLen :
        /\ InARow(s, i, 3)
        /\ StartThen(s, i, "finish")
        /\ UnforcedStart(hist[s][i + 2])
        /\ hist[s][i + 1].new = Some(100)
        /\ ResultType(hist[s][i + 2]) = "Found"

\* C6: when an unforced try_start returned NotFound or Found and the next
\* call on the subject is an unforced try_start made more than the expiry
\* threshold after the Started entry of the first, the second gets the
\* response the first one got, not InUse, and writes a fresh Started entry.
C6_ExpiredLeaseRecovers ==
    \A s \in Subjects : \A i \in 1..HistLen :
        ( /\ InARow(s, i, 2)
          /\ UnforcedStart(hist[s][i])
          /\ Succeeded(hist[s][i].out)
          /\ UnforcedStart(hist[s][i + 1])
          /\ hist[s][i + 1].now - hist[s][i].wrote[1].date
                > TRANSACTION_EXPIRY_TIMEOUT_SECS )
        => /\ Responded(hist[s][i + 1])
           /\ SameState(hist[s][i + 1].out.resp[1], hist[s][i].out.resp[1])
           /\ hist[s][i + 1].wrote # <<>>
           /\ hist[s][i + 1].wrote[1].entry_type = "Started"
           /\ hist[s][i + 1].wrote[1].date = hist[s][i + 1].now

\* the call a worker has just completed
LastCall(h, w) == Len(h) > 0 /\ h[Len(h)].worker = w

\* the step in which worker w leaves the with statement of a forced try_start
ForcedStartCloses(w) ==
    /\ pc[w] = "close"
    /\ pc'[w] = "idle"
    /\ call[w].op = "try_start"
    /\ call[w].from_max_id # None

\* C7: a try_start with a from_max_id appends exactly one Started entry
\* with that watermark to the file, whatever the file holds, and returns a
\* response tagged InUse whose max_id is that watermark.
C7_ForcedStartAppends ==
    [][ \A w \in Workers :
          ForcedStartCloses(w) =>
            LET c == call[w]
                h == hist'[SubjectOf(c.user_name)]
            IN  /\ \E now \in Times :
                      files'[c.path] =
                          Append(files[c.path],
                                 Str(started_now(now, c.user_name, c.from_max_id)))
                /\ LastCall(h, w)
                /\ Responded(h[Len(h)])
                /\ ResultType(h[Len(h)]) = "InUse"
                /\ h[Len(h)].out.resp[1].max_id = c.from_max_id ]_vars

\* the lines hold an entry that decodes and is of another subject
HasForeignEntry(lines, subject) ==
    \E i \in 1..Len(lines) :
        /\ FromStrOk(lines[i])
        /\ Lower(<<lines[i][2]>>) # subject

\* the step in which worker w, holding the lock, runs the body of an
\* unforced try_start
UnforcedStartReads(w) ==
    /\ pc[w] = "locked"
    /\ pc'[w] # "locked"
    /\ call[w].op = "try_start"
    /\ call[w].from_max_id = None

\* C8: an unforced try_start that finds in the subject's file an entry of
\* another subject raises an error, returns no response and leaves the file
\* as it is.
C8_ForeignEntryRaises ==
    [][ \A w \in Workers :
          ( /\ UnforcedStartReads(w)
            /\ HasForeignEntry(files[call[w].path], SubjectOf(call[w].user_name)) )
          => LET h == hist'[SubjectOf(call[w].user_name)]
             IN  /\ pc'[w] = "idle"
                 /\ LastCall(h, w)
                 /\ h[Len(h)].out.raised # ""
                 /\ h[Len(h)].out.resp = None
                 /\ h[Len(h)].wrote = <<>>
                 /\ files' = files ]_vars

C8_Witness ==
    \E h \in Calls :
        /\ UnforcedStart(h)
        /\ h.out.raised = "ValueError: wrong user"
        /\ h.wrote = <<>>

\* what an unforced try_start under this spelling would be handed now
WouldGet(user_name, now) ==
    TryStartBody(files[journal_for_user(user_name)], user_name, None, now).out

CameBack ==
    probe.back = Some([raised |-> "", entry |-> probe.entry])

\* C10, as claimed: for every entry e, from_str(str(e)) is an entry equal to
\* e in every field.
C10_RoundTripOfEveryEntry ==
    probe.stage = "decoded" => CameBack

\* C10, amended: for every entry e whose user name holds no tab,
\* from_str(str(e)) is an entry equal to e in every field, absent fields
\* coming back absent.
C10_RoundTrip ==
    (probe.stage = "decoded" /\ Len(probe.entry[1].user_name) = 1) => CameBack

C10_Witness ==
    /\ probe.stage = "decoded"
    /\ Len(probe.entry[1].user_name) = 1
    /\ probe.entry[1].entry_type = "Finished"
    /\ probe.entry[1].old_max_id = None
    /\ probe.entry[1].new_max_id = Some(100)
    /\ probe.entry[1].new_max_date = Some(8)
    /\ CameBack

\* C11: a worker holds the exclusive lock of a file only inside the critical
\* section of its call: once try_start, finish or abandon has given up the
\* lock, and so when it has returned or raised, the worker holds no lock
\* and the lock is free for the flock of any other worker.
C11_LockReleased ==
    \A p \in Paths : \A w \in Workers :
        /\ lockedBy[p] = w => (pc[w] = "locked" /\ call[w].path = p)
        /\ pc[w] \in {"idle", "close"} =>
              \A v \in Workers \ {w} :
                  (\A u \in Workers \ {w} : pc[u] # "locked") => flock_free(p, v)

\* a try_start raised inside its critical section, on a line of another
\* subject or a line that does not decode, and holds no lock afterwards
C11_Witness ==
    \E h \in Calls :
        /\ h.op = "try_start"
        /\ h.out.raised \in {"ValueError: wrong user", "KeyError"}
        /\ pc[h.worker] = "idle"
        /\ \A p \in Paths : lockedBy[p] = NoWorker

\* C12: a try_lock that has begun ends: the worker comes to hold the lock,
\* or its call raises the error of the last failed flock.
C12_TryLockTerminates ==
    \A w \in Workers : (pc[w] = "lock") ~> (pc[w] \in {"locked", "idle"})

\* a try_lock used its budget up and raised
C12_Witness ==
    \E h \in Calls :
        /\ h.op = "try_start"
        /\ h.out.raised = "BlockingIOError"

\* the step in which worker w leaves its with statement and its file changes
ClosingChangesFile(w) ==
    /\ pc[w] = "close"
    /\ pc'[w] # "close"
    /\ files'[call[w].path] # files[call[w].path]

\* the step in which worker w gives up the lock of its file
GivesUpLock(w) ==
    /\ pc[w] = "locked"
    /\ lockedBy[call[w].path] = w
    /\ lockedBy'[call[w].path] # w

\* C13: the entry a call appends is in the file when the call gives up the
\* lock, and a worker changes a file only while it holds the file's lock.
C13_AppendsUnderLock ==
    [][ \A w \in Workers :
          /\ ClosingChangesFile(w) => lockedBy[call[w].path] = w
          /\ (GivesUpLock(w) /\ call'[w].wrote # <<>>) =>
                \E i \in 1..Len(files'[call[w].path]) :
                    files'[call[w].path][i] = Str(call'[w].wrote[1]) ]_vars

IsPrefix(a, b) == Len(a) <= Len(b) /\ SubSeq(b, 1, Len(a)) = a

\* C14: the journal is append-only: in every step the lines a file held
\* before are the first lines it holds after.
C14_AppendOnly ==
    [][ \A p \in Paths : IsPrefix(files[p], files'[p]) ]_vars

\* C15: a failure at one subject does not stop the batch: when try_start
\* has failed for a subject in process_journal (the lock was not had in
\* time, a line could not be decoded, an entry was of another subject),
\* process_journal still goes through every user that journalled_users
\* listed before it ends: none is left after the one it ended at.
SubjectFailures == {"BlockingIOError", "KeyError", "ValueError: wrong user"}

C15_BatchGoesOn ==
    (batch.stage = "ended" /\ batch.raised \in SubjectFailures)
        => batch.at >= Len(batch.users)

\* the state journalled_users has just returned in
JustListed == batch.stage = "loop" /\ batch.calls = <<>>

\* the regular files of the directory that are named as journals are
RegularJournals ==
    {n \in DirNames : /\ batch.entries[n].kind = "file"
                      /\ EndsWith(n, ".journal")
                      /\ ~StartsWith(n, ".")}

WithoutSuffix(n) == SubSeq(n, 1, Len(n) - Len(".journal"))

ListedAt(u) == {i \in 1..Len(batch.users) : batch.users[i] = u}

\* C16, as stated: journalled_users returns the lower-cased names, without
\* the suffix, of the regular files named *.journal that are not hidden, and
\* every subject that try_start, finish or abandon was called on is listed
\* once, whatever the case of its letters.
C16_ListsEverySubjectLowerCased ==
    JustListed =>
        /\ {batch.users[i] : i \in 1..Len(batch.users)}
              = {LowerStr(WithoutSuffix(n)) : n \in RegularJournals}
        /\ \A u \in batch.called :
              Cardinality({i \in 1..Len(batch.users) :
                              LowerStr(batch.users[i]) = LowerStr(u[1])}) = 1

\* C16, amended: journalled_users returns, once for each, the names without
\* the suffix, spelled as they are in the directory, of the regular files
\* named *.journal that are not hidden; a subject that try_start, finish or
\* abandon was called on is listed once under its lower-cased name unless
\* that name begins with a dot, and then it is not listed.
C16_ListsJournalFiles ==
    JustListed =>
        /\ Len(batch.users) = Cardinality(RegularJournals)
        /\ {batch.users[i] : i \in 1..Len(batch.users)}
              = {WithoutSuffix(n) : n \in RegularJournals}
        /\ \A u \in batch.called :
              Cardinality(ListedAt(LowerStr(u[1])))
                  = IF StartsWith(u[1], ".") THEN 0 ELSE 1

\* a subject was called on in capitals and is listed in lower case, beside a
\* hidden file, a file of another name and a directory that are not listed
C16_Witness ==
    /\ JustListed
    /\ <<"Eve">> \in batch.called
    /\ batch.entries["Eve.journal"].kind = "absent"
    /\ batch.entries["notes.txt"].kind = "file"
    /\ batch.entries[".bob.journal"].kind = "file"
    /\ batch.entries["old.journal"].kind = "dir"
    /\ Cardinality(ListedAt("eve")) = 1
    /\ Len(batch.users) = 2

\* the pairing rule as it is stated: the entry read completes the top when
\* the top is Started, the entry read is not, both are of one subject, and
\* the top's old_max_id is None or is the old_max_id of the entry read
Completes(read, top) ==
    /\ top.entry_type = "Started"
    /\ read.entry_type \in {"Finished", "Abandoned"}
    /\ Lower(read.user_name) = Lower(top.user_name)
    /\ (top.old_max_id = None \/ top.old_max_id = read.old_max_id)

RECURSIVE Reduction(_, _)
\* the reduction of the first n lines by that rule
Reduction(lines, n) ==
    IF n = 0 THEN <<>>
    ELSE LET stack == Reduction(lines, n - 1)
             read  == from_str(lines[n])
         IN  IF Len(stack) > 0 /\ Completes(read, stack[Len(stack)])
             THEN Append(SubSeq(stack, 1, Len(stack) - 1), read)
             ELSE Append(stack, read)

\* C17: at every point of the read loop of try_start, the stack is the
\* reduction of the entries read so far by the pairing rule: a Finished or
\* Abandoned entry takes the place of a Started top of the same subject whose
\* old_max_id is None or equal to its own, every other entry is pushed.
C17_ReplayIsReduction ==
    probe.stage = "replay" => probe.user_entries = Reduction(probe.lines, probe.read)

\* the places of the Finished entries in the lines of a file
FinishedAt(lines) ==
    {i \in 1..Len(lines) : from_str(lines[i]).entry_type = "Finished"}

\* the last Finished entry of a file that has one
LastFinished(lines) ==
    from_str(lines[CHOOSE i \in FinishedAt(lines) : \A j \in FinishedAt(lines) : j <= i])

\* the step in which the unforced try_start of worker w settles on Found
SettlesOnFound(w) ==
    /\ pc[w] = "locked"
    /\ call[w].op = "try_start"
    /\ call[w].from_max_id = None
    /\ pc'[w] = "close"
    /\ call'[w].out.raised = ""
    /\ call'[w].out.resp[1].result_type = "Found"

\* C18: when an unforced try_start returns Found, the max_id and the
\* last_tweet_date_utc of the response are the new_max_id and the
\* new_max_date of the last Finished entry of the file it read.
C18_ResumesFromLastFinished ==
    [][ \A w \in Workers :
          SettlesOnFound(w) =>
             LET lines == NonBlank(files[call[w].path])
                 resp  == call'[w].out.resp[1]
             IN  /\ FinishedAt(lines) # {}
                 /\ resp.max_id = LastFinished(lines).new_max_id
                 /\ resp.last_tweet_date_utc = LastFinished(lines).new_max_date ]_vars

\* the open entries of a file at a time: the Started entries that are not
\* expired and that no later Finished or Abandoned entry completes
OpenAt(lines, now) ==
    {i \in 1..Len(lines) :
        /\ from_str(lines[i]).entry_type = "Started"
        /\ ~is_expired(from_str(lines[i]), now)
        /\ \A j \in (i + 1)..Len(lines) : ~Completes(from_str(lines[j]), from_str(lines[i]))}

\* the lines of a file that are entries
EntryLines(lines) == SelectSeq(NonBlank(lines), FromStrOk)

\* no forced try_start was made or is being made: a forced try_start appends
\* its Started entry without reading the file
NoForcedStart ==
    /\ \A w \in Workers : call[w].op = "try_start" => call[w].from_max_id = None
    /\ \A s \in Subjects : \A i \in 1..Len(hist[s]) : ~hist[s][i].forced

\* C19: at any instant a journal file holds at most one open Started entry;
\* stated here for the files that unforced try_start, finish and abandon
\* make, which the claim includes.
C19_OneOpenStarted ==
    NoForcedStart =>
        \A p \in Paths : Cardinality(OpenAt(EntryLines(files[p]), clock)) <= 1

\* the step in which worker w leaves the with statement of an unforced
\* try_start that has settled on NotFound or Found
ResolvedStartCloses(w) ==
    /\ pc[w] = "close"
    /\ pc'[w] = "idle"
    /\ call[w].op = "try_start"
    /\ call[w].from_max_id = None
    /\ Succeeded(call[w].out)

\* C20: an unforced try_start that settles on NotFound or Found appends
\* exactly one Started entry to the file before it returns, with the
\* max_id of its response as old_max_id (None for NotFound), and returns
\* that response.
C20_ResolvedStartAppends ==
    [][ \A w \in Workers :
          ResolvedStartCloses(w) =>
            LET c    == call[w]
                resp == c.out.resp[1]
                h    == hist'[SubjectOf(c.user_name)]
            IN  /\ files'[c.path] =
                      Append(files[c.path], Str(started_now(c.now, c.user_name, resp.max_id)))
                /\ resp.result_type = "NotFound" => resp.max_id = None
                /\ LastCall(h, w)
                /\ h[Len(h)].out = c.out ]_vars

\* the step in which the unforced try_start of worker w returns InUse
ReturnsInUse(w) ==
    /\ pc[w] \in {"locked", "close"}
    /\ pc'[w] = "idle"
    /\ call[w].op = "try_start"
    /\ call[w].from_max_id = None
    /\ LET h == hist'[SubjectOf(call[w].user_name)]
       IN  /\ LastCall(h, w)
           /\ Responded(h[Len(h)])
           /\ ResultType(h[Len(h)]) = "InUse"

\* C21: an unforced try_start that returns InUse appends no entry: it has
\* written nothing when it returns, and the step in which it returns leaves
\* the subject's file as it was.
C21_InUseAppendsNothing ==
    [][ \A w \in Workers :
          ReturnsInUse(w) =>
            LET h == hist'[SubjectOf(call[w].user_name)]
            IN  /\ h[Len(h)].wrote = <<>>
                /\ pc[w] = "locked"
                /\ files' = files ]_vars

\* an unforced try_start has returned InUse on a file that holds a lease
C21_Witness ==
    \E h \in Calls :
        /\ UnforcedStart(h)
        /\ Responded(h)
        /\ ResultType(h) = "InUse"
        /\ pc[h.worker] = "idle"
        /\ \E p \in Paths : \E i \in 1..Len(files[p]) :
              /\ FromStrOk(files[p][i])
              /\ from_str(files[p][i]).entry_type = "Started"

KindNames == {"Started", "Finished", "Abandoned"}

\* the line from_str was given, and what it did with it
Decoded == probe.stage = "decoded"
Line == probe.text
Outcome == probe.back[1]

\* C22, as stated: from_str raises for every line that has not six fields,
\* or whose date is not a date, or whose kind is not the name of a kind.
C22_RejectsEveryMalformedLine ==
    ( /\ Decoded
      /\ \/ Len(Line) # 6
         \/ ~IsDateStr(Line[1])
         \/ Line[3] \notin KindNames )
    => (Outcome.raised # "" /\ Outcome.entry = None)

\* a field after the kind is right when it is None or a value of its type
RightField(i) ==
    Len(Line) >= i =>
        \/ Line[i] = "None"
        \/ IF i = 6 THEN IsDateStr(Line[i]) ELSE IsIntStr(Line[i])

\* C22, amended: from_str raises for every line of fewer than three fields,
\* or whose date is not a date, or whose kind is not the name of a kind, or
\* whose fourth, fifth or sixth field is there and is neither None nor a
\* value of its type; every other line gives an entry, with None for the
\* fields after the third that are missing, whatever comes after the sixth.
C22_RejectsMalformedLines ==
    Decoded =>
        IF \/ Len(Line) < 3
           \/ ~IsDateStr(Line[1])
           \/ Line[3] \notin KindNames
           \/ ~RightField(4) \/ ~RightField(5) \/ ~RightField(6)
        THEN Outcome.raised # "" /\ Outcome.entry = None
        ELSE /\ Outcome.raised = ""
             /\ Outcome.entry # None
             /\ Outcome.entry[1].entry_type = Line[3]
             /\ Len(Line) < 4 => Outcome.entry[1].old_max_id = None
             /\ Len(Line) < 5 => Outcome.entry[1].new_max_id = None
             /\ Len(Line) < 6 => Outcome.entry[1].new_max_date = None

\* a line of six fields with a kind that is none was turned down
C22_Witness ==
    /\ Decoded
    /\ Len(Line) = 6
    /\ IsDateStr(Line[1])
    /\ Line[3] = "Stopped"
    /\ Outcome.raised = "KeyError"

\* the call at place i of the loop's calls is a try_start that returned Found
LoopFound(i) ==
    /\ batch.calls[i].op = "try_start"
    /\ batch.calls[i].out.raised = ""
    /\ batch.calls[i].out.resp[1].result_type = "Found"

\* the call at place j ends the session that the try_start at place i began
LoopEnds(j, i) ==
    /\ batch.calls[j].op \in {"finish", "abandon"}
    /\ batch.calls[j].user_name = batch.calls[i].user_name
    /\ batch.calls[j].old = batch.calls[i].out.resp[1].max_id

\* C23: when process_journal has ended, however it ended, every try_start
\* of its loop that returned Found was followed by a finish or an abandon of
\* the same subject with the watermark of the response: when the download
\* fails, abandon is called.
C23_FailedFetchAbandons ==
    batch.stage = "ended" =>
        \A i \in 1..Len(batch.calls) :
            LoopFound(i) => \E j \in (i + 1)..Len(batch.calls) : LoopEnds(j, i)

\* the call at place i of the program's calls is a try_start of this user
\* that returned NotFound or Found with this watermark
StartedWith(i, user_name, old) ==
    /\ batch.calls[i].op = "try_start"
    /\ Lower(batch.calls[i].user_name) = Lower(user_name)
    /\ Succeeded(batch.calls[i].out)
    /\ batch.calls[i].out.resp[1].max_id = old

\* the Finished entry at line k of these lines has before it a Started
\* entry of its subject with its old_max_id
StartedBefore(lines, k) ==
    \E i \in 1..(k - 1) :
        /\ from_str(lines[i]).entry_type = "Started"
        /\ Lower(from_str(lines[i]).user_name) = Lower(from_str(lines[k]).user_name)
        /\ from_str(lines[i]).old_max_id = from_str(lines[k]).old_max_id

Corrupt(lines, subject) ==
    \E i \in 1..Len(lines) :
        /\ ~IsBlank(lines[i])
        /\ \/ ~FromStrOk(lines[i])
           \/ Lower(<<lines[i][2]>>) # subject

\* the step in which worker w, holding the lock, runs the body of try_start
StartReads(w) ==
    /\ pc[w] = "locked"
    /\ pc'[w] # "locked"
    /\ call[w].op = "try_start"

\* what the body settled on in that step
SettledOn(w) ==
    IF pc'[w] = "close" THEN call'[w].out
    ELSE LET h == hist'[SubjectOf(call[w].user_name)] IN h[Len(h)].out

\* C25: every response of try_start is tagged NotFound, Found or InUse,
\* never BrokenJournal; when an unforced try_start reads a file with a line
\* it cannot decode or with an entry of another subject, it raises an error
\* and returns no response.
C25_NeverBrokenJournal ==
    [][ \A w \in Workers :
          StartReads(w) =>
            /\ SettledOn(w).raised = "" =>
                  /\ SettledOn(w).resp # None
                  /\ SettledOn(w).resp[1].result_type \in {"NotFound", "Found", "InUse"}
            /\ ( /\ call[w].from_max_id = None
                 /\ Corrupt(files[call[w].path], SubjectOf(call[w].user_name)) )
               => (SettledOn(w).raised # "" /\ SettledOn(w).resp = None) ]_vars

\* try_start has raised on a line that is no entry and on an entry of
\* another subject, and has returned a response on a sound file
C25_Witness ==
    /\ \E h \in Calls : UnforcedStart(h) /\ h.out.raised \in {"KeyError", "ValueError: wrong user"}
    /\ \E h \in Calls : h.op = "try_start" /\ Responded(h)

\* the step in which the call of worker w ends because try_lock has raised
LockTimesOut(w) ==
    /\ pc[w] = "lock"
    /\ pc'[w] = "idle"
    /\ LET h == hist'[SubjectOf(call[w].user_name)]
       IN  /\ LastCall(h, w)
           /\ h[Len(h)].out.raised = "BlockingIOError"

\* C26: a try_start, finish or abandon that ends because its try_lock has
\* timed out has written nothing and leaves the file as it is, and the
\* worker that holds the lock still holds it and is still inside its call:
\* no other worker can have the lock.
C26_TimeoutDisturbsNothing ==
    [][ \A w \in Workers :
          LockTimesOut(w) =>
            LET c == call[w]
                h == hist'[SubjectOf(c.user_name)]
            IN  /\ h[Len(h)].wrote = <<>>
                /\ files' = files
                /\ lockedBy[c.path] \in Workers \ {w}
                /\ lockedBy' = lockedBy
                /\ pc'[lockedBy[c.path]] = "locked"
                /\ call'[lockedBy[c.path]].path = c.path ]_vars

\* a finish or abandon has timed out at the lock and the holder is still
\* inside its call, with the lock
C26_Witness ==
    \E h \in Calls :
        /\ h.op \in {"finish", "abandon"}
        /\ h.out.raised = "BlockingIOError"
        /\ pc[h.worker] = "idle"
        /\ \E p \in Paths : \E v \in Workers \ {h.worker} :
              lockedBy[p] = v /\ pc[v] = "locked"

====
